---- MODULE Spec2Model ----
(***************************************************************************)
(* Model of the Mutual Fund Analyser ingestion pipeline:                   *)
(*   lambda/lambda_function.py    (monolithic daily ETL handler)           *)
(*   lambda/processor_function.py (S3-triggered processor handler)         *)
(*   scripts/build_database.py    (full rebuild of the local SQLite store) *)
(*   scripts/local_to_rds_backfill.py (copy of the local store to RDS)     *)
(*                                                                         *)
(* A raw text is modelled after raw_data.strip().split('\n'): a non-empty  *)
(* sequence of lines.  A line is modelled by what line.strip().split(';')  *)
(* returns: a non-empty sequence of field strings; a line holds a ';'      *)
(* exactly when it splits into two or more fields.                         *)
(* Floats are records [k, v]: k = "num" with v the value in tenths,        *)
(* k = "nan" or k = "inf".  Dates are day numbers.                         *)
(***************************************************************************)
EXTENDS Integers, Sequences, FiniteSets, Bags, TLC

VARIABLES raw, call, rds, sqlite, pre, run, again, nav_series, db, s3, runs

vars == <<raw, call, rds, sqlite, pre, run, again, nav_series, db, s3, runs>>

(* ------------------------------------------------------------------ *)
(* Bounds of the model                                                 *)
(* ------------------------------------------------------------------ *)

\* longest text (in lines) handed to the parsers in SpecParse
MaxLines == 2

\* longest feed (in lines) handed to an ingestion run in Spec
MaxBatch == 2

(* ------------------------------------------------------------------ *)
(* Program constants                                                   *)
(* ------------------------------------------------------------------ *)

\* validate_raw_data(raw_data, sample_size=100, ...)
DefaultSampleSize == 100

\* validate_raw_data(..., conformity_threshold=0.9), in percent
DefaultThresholdPct == 90

\* number of fields of a valid record: len(fields) == 6
RecordFields == 6

(* ------------------------------------------------------------------ *)
(* Field conversions (pandas)                                          *)
(* ------------------------------------------------------------------ *)

Num(v) == [k |-> "num", v |-> v]
NaN == [k |-> "nan", v |-> 0]
PosInf == [k |-> "inf", v |-> 0]

\* pd.to_numeric(column, errors='coerce') on one field string; values in tenths
to_numeric(s) ==
    CASE s = "1"     -> Num(10)
      [] s = "2"     -> Num(20)
      [] s = "7.5"   -> Num(75)
      [] s = "0"     -> Num(0)
      [] s = "-3"    -> Num(-30)
      [] s = "10.50" -> Num(105)
      [] s = "11.00" -> Num(110)
      [] s = "inf"   -> PosInf
      [] OTHER       -> NaN

NaT == [k |-> "nat", v |-> 0]
Day(d) == [k |-> "date", v |-> d]

\* pd.to_datetime(column, format='%d-%b-%Y', errors='coerce') on one field string
to_datetime(s) ==
    CASE s = "01-Jan-2024" -> Day(1)
      [] s = "02-Jan-2024" -> Day(2)
      [] OTHER             -> NaT

\* Series.astype(int) on one float: truncation toward zero (value in tenths -> integer)
astype_int(x) ==
    IF x.v >= 0 THEN x.v \div 10 ELSE -((-(x.v)) \div 10)

\* df['nav'] > 0 on one float
nav_positive(x) == x.k = "inf" \/ (x.k = "num" /\ x.v > 0)

(* ------------------------------------------------------------------ *)
(* Raw Feed Parser                                                     *)
(* ------------------------------------------------------------------ *)

\* ';' in line
has_semicolon(line) == Len(line) > 1

record_of_name_at_2(fields) ==
    [scheme_code |-> fields[1], scheme_name |-> fields[3],
     nav |-> fields[5], date |-> fields[6]]

\* the dictionary appended to processed_records for one 6-field line
record_of(fields) ==
    [scheme_code |-> fields[1], scheme_name |-> fields[4],
     nav |-> fields[5], date |-> fields[6]]

MapSeq(Op(_), s) == [i \in 1..Len(s) |-> Op(s[i])]

\* a line the loop appends a record for: it holds a ';' and splits into 6 fields
is_record_line(line) == has_semicolon(line) /\ Len(line) = RecordFields

\* the loop "for line in lines" of the three parsers: one record per record
\* line, in the order of the text
processed_records(lines) == MapSeq(record_of, SelectSeq(lines, is_record_line))

\* the three coercions of the DataFrame columns
coerce_row(r) ==
    [scheme_code |-> to_numeric(r.scheme_code), scheme_name |-> r.scheme_name,
     nav |-> to_numeric(r.nav), date |-> to_datetime(r.date)]

\* df.dropna(): a row survives when no column is NaN / NaT
row_notna(r) == r.scheme_code.k # "nan" /\ r.nav.k # "nan" /\ r.date.k # "nat"

\* the row after df['scheme_code'].astype(int)
typed_row(r) ==
    [scheme_code |-> astype_int(r.scheme_code), scheme_name |-> r.scheme_name,
     nav |-> r.nav, date |-> r.date.v]

keep_positive_nav(r) == nav_positive(r.nav)

\* type conversion and cleaning of the candidate records; astype(int) raises
\* IntCastingNaNError when a surviving scheme_code is not finite
clean_records(records) ==
    LET coerced == MapSeq(coerce_row, records)
        kept    == SelectSeq(coerced, row_notna)
    IN  IF \E i \in 1..Len(kept) : kept[i].scheme_code.k = "inf"
        THEN [raised |-> TRUE, rows |-> << >>]
        ELSE [raised |-> FALSE,
              rows |-> SelectSeq(MapSeq(typed_row, kept), keep_positive_nav)]

\* lambda_function.process_daily_data
process_daily_data(lines) ==
    LET records == processed_records(lines)
    IN  IF records = << >> THEN [raised |-> FALSE, rows |-> << >>]
        ELSE clean_records(records)

\* processor_function.process_data: same steps, exceptions logged and re-raised
processor_process_data(lines) ==
    LET records == processed_records(lines)
    IN  IF records = << >> THEN [raised |-> FALSE, rows |-> << >>]
        ELSE clean_records(records)

(* ------------------------------------------------------------------ *)
(* Feed Integrity Validator                                            *)
(* ------------------------------------------------------------------ *)

Min(a, b) == IF a < b THEN a ELSE b

has_record_fields(line) == Len(line) = RecordFields

\* the loop "for line in sample_lines": <<data_lines_checked, valid_lines_found>>
sample_counts(sample_lines) ==
    LET data_lines == SelectSeq(sample_lines, has_semicolon)
    IN  <<Len(data_lines), Len(SelectSeq(data_lines, has_record_fields))>>

validate_raw_data_le(lines, sample_size, threshold_pct) ==
    LET sample_lines == SubSeq(lines, 1, Min(sample_size, Len(lines)))
        counts       == sample_counts(sample_lines)
    IN  IF sample_lines = << >> THEN FALSE
        ELSE IF counts[1] = 0 THEN FALSE
        ELSE IF counts[2] * 100 <= threshold_pct * counts[1] THEN FALSE
        ELSE TRUE

\* lambda_function.validate_raw_data; the threshold is given in percent.
\* conformity_score < conformity_threshold is compared exactly: for counts up to
\* the sample size the float quotient equals the float threshold when the ratio
\* equals it, and is at least 1 / (100 * data_lines_checked) away from it otherwise.
validate_raw_data(lines, sample_size, threshold_pct) ==
    LET sample_lines == SubSeq(lines, 1, Min(sample_size, Len(lines)))
        counts       == sample_counts(sample_lines)
    IN  IF sample_lines = << >> THEN FALSE
        ELSE IF counts[1] = 0 THEN FALSE
        ELSE IF counts[2] * 100 < threshold_pct * counts[1] THEN FALSE
        ELSE TRUE

(* ------------------------------------------------------------------ *)
(* Storage: tables as bags of rows                                     *)
(* ------------------------------------------------------------------ *)

Range(s) == {s[i] : i \in DOMAIN s}

\* the rows a DataFrame writes with to_sql, as a table
TableOf(rows) == [r \in Range(rows) |-> Cardinality({i \in DOMAIN rows : rows[i] = r})]

nav_key(r) == <<r.scheme_code, r.date>>
meta_key(r) == r.scheme_code

\* number of rows of nav_history for the pair <<scheme_code, date>>
NavRowsFor(table, k) ==
    LET hit == {r \in BagToSet(table) : nav_key(r) = k}
    IN  IF hit = {} THEN 0 ELSE BagCardinality([r \in hit |-> table[r]])

\* number of rows of funds_metadata for a scheme_code
MetaRowsFor(table, c) ==
    LET hit == {r \in BagToSet(table) : meta_key(r) = c}
    IN  IF hit = {} THEN 0 ELSE BagCardinality([r \in hit |-> table[r]])

\* daily_df[['scheme_code', 'scheme_name']].drop_duplicates('scheme_code'): first row per code
drop_duplicates(rows) ==
    LET numbered == [i \in DOMAIN rows |-> <<i, rows[i]>>]
        first(p) == \A j \in 1..(p[1] - 1) : rows[j].scheme_code # p[2].scheme_code
        pick(p)  == [scheme_code |-> p[2].scheme_code, scheme_name |-> p[2].scheme_name]
    IN  MapSeq(pick, SelectSeq(numbered, first))

metadata_df_keep_all(rows) ==
    [i \in DOMAIN rows |->
        [scheme_code |-> rows[i].scheme_code, scheme_name |-> rows[i].scheme_name]]

\* ...drop_duplicates('scheme_code').set_index('scheme_code')
metadata_df(rows) == drop_duplicates(rows)

nav_row(r) == [scheme_code |-> r.scheme_code, date |-> r.date, nav |-> r.nav]

\* daily_df[['scheme_code', 'date', 'nav']]
nav_df(rows) == MapSeq(nav_row, rows)

\* INSERT INTO nav_history ... SELECT ... FROM temp_nav
\*   ON CONFLICT (scheme_code, date) DO UPDATE SET nav = EXCLUDED.nav
\* PostgreSQL refuses the statement when nav_history has no unique constraint on
\* (scheme_code, date), and when two rows of temp_nav carry the same pair
\* ("ON CONFLICT DO UPDATE command cannot affect row a second time").
nav_upsert_fails(keyed, rows) ==
    \/ keyed # "pk"
    \/ \E i, j \in DOMAIN rows : i < j /\ nav_key(rows[i]) = nav_key(rows[j])

nav_upsert_append(table, rows) == table (+) TableOf(rows)

nav_upsert_do_nothing(table, rows) ==
    LET held == {nav_key(r) : r \in BagToSet(table)}
    IN  table (+) SetToBag({r \in Range(rows) : nav_key(r) \notin held})

nav_upsert(table, rows) ==
    LET keys == {nav_key(rows[i]) : i \in DOMAIN rows}
        stay == {r \in BagToSet(table) : nav_key(r) \notin keys}
    IN  [r \in stay |-> table[r]] (+) SetToBag(Range(rows))

\* INSERT INTO funds_metadata SELECT * FROM temp_metadata
\*   ON CONFLICT (scheme_code) DO UPDATE SET scheme_name = EXCLUDED.scheme_name
meta_upsert_fails(keyed, rows) ==
    \/ keyed # "pk"
    \/ \E i, j \in DOMAIN rows : i < j /\ meta_key(rows[i]) = meta_key(rows[j])

meta_upsert(table, rows) ==
    LET keys == {meta_key(rows[i]) : i \in DOMAIN rows}
        stay == {r \in BagToSet(table) : meta_key(r) \notin keys}
    IN  [r \in stay |-> table[r]] (+) SetToBag(Range(rows))

\* CREATE TABLE IF NOT EXISTS t (..., PRIMARY KEY (...))
create_if_not_exists(keyed) == IF keyed = "absent" THEN "pk" ELSE keyed

EmptyTable == EmptyBag

\* the RDS store: funds_metadata and nav_history with the constraint each carries
\* ("absent": no table, "plain": no unique constraint, "pk": primary key)
EmptyRds ==
    [meta |-> EmptyTable, metaKey |-> "absent", nav |-> EmptyTable, navKey |-> "absent"]

\* the local SQLite store written by build_database.py
EmptySqlite == [built |-> FALSE, meta |-> EmptyTable, nav |-> EmptyTable]

(* ------------------------------------------------------------------ *)
(* Ingestion handlers                                                  *)
(* ------------------------------------------------------------------ *)

Outcome(status, store) == [status |-> status, rds |-> store]

\* lambda_function.lambda_handler, "LOAD": the metadata table is replaced through the
\* engine (its own committed transaction); the NAV upsert then runs in a second
\* transaction on a connection, which closes without commit when a statement fails
lambda_load(store, rows) ==
    LET replaced == [store EXCEPT !.meta = TableOf(metadata_df(rows)), !.metaKey = "plain"]
        navKeyed == create_if_not_exists(store.navKey)
    IN  IF nav_upsert_fails(navKeyed, nav_df(rows))
        THEN Outcome("error", replaced)
        ELSE Outcome("ok", [replaced EXCEPT !.nav = nav_upsert(store.nav, nav_df(rows)),
                                            !.navKey = navKeyed])

\* lambda_function.lambda_handler on the fetched text, as far as the database is
\* concerned: the HTTP fetch, the S3 landing and raw zone objects and the secret
\* lookup precede the first database write and leave the database alone
lambda_handler(store, lines) ==
    IF ~validate_raw_data(lines, DefaultSampleSize, DefaultThresholdPct)
    THEN Outcome("error", store)
    ELSE LET df == process_daily_data(lines)
         IN  IF df.raised THEN Outcome("error", store)
             ELSE IF df.rows = << >> THEN Outcome("nodata", store)
             ELSE lambda_load(store, df.rows)

\* processor_function.lambda_handler, "LOAD": one connection, one transaction, one commit
processor_load(store, rows) ==
    LET metaKeyed == create_if_not_exists(store.metaKey)
        navKeyed  == create_if_not_exists(store.navKey)
    IN  IF \/ meta_upsert_fails(metaKeyed, metadata_df(rows))
           \/ nav_upsert_fails(navKeyed, nav_df(rows))
        THEN Outcome("error", store)
        ELSE Outcome("ok", [meta    |-> meta_upsert(store.meta, metadata_df(rows)),
                            metaKey |-> metaKeyed,
                            nav     |-> nav_upsert(store.nav, nav_df(rows)),
                            navKey  |-> navKeyed])

\* processor_function.lambda_handler on the text of the S3 object (no validation
\* step: the text goes from get_object straight to process_data)
processor_lambda_handler(store, lines) ==
    LET df == processor_process_data(lines)
    IN  IF df.raised THEN Outcome("error", store)
        ELSE IF df.rows = << >> THEN Outcome("nodata", store)
        ELSE processor_load(store, df.rows)

(* ------------------------------------------------------------------ *)
(* Full rebuild and backfill                                           *)
(* ------------------------------------------------------------------ *)

\* build_database.process_data: sys.exit(1) when no line is a candidate record or
\* when a step raises; otherwise <<df_metadata, df_nav_history>>
build_process_data(lines) ==
    LET records == processed_records(lines)
        cleaned == clean_records(records)
    IN  IF records = << >> \/ cleaned.raised
        THEN [exited |-> TRUE, metadata |-> << >>, nav_history |-> << >>]
        ELSE [exited |-> FALSE, metadata |-> metadata_df(cleaned.rows),
              nav_history |-> nav_df(cleaned.rows)]

\* build_database.save_to_database: both tables written with if_exists='replace'
save_to_database(df_metadata, df_nav_history) ==
    [built |-> TRUE, meta |-> TableOf(df_metadata), nav |-> TableOf(df_nav_history)]

\* local_to_rds_backfill: step 1 exits when a local table is missing or empty
backfill_exits(local) ==
    ~local.built \/ local.nav = EmptyTable \/ local.meta = EmptyTable

\* local_to_rds_backfill: step 3 replaces both RDS tables; only funds_metadata
\* gets a primary key
backfill_write(local) ==
    [meta |-> local.meta, metaKey |-> "pk", nav |-> local.nav, navKey |-> "plain"]

(* ------------------------------------------------------------------ *)
(* Feeds                                                               *)
(* ------------------------------------------------------------------ *)

HeaderLine ==
    <<"Scheme Code", "ISIN Div Payout/ISIN Growth", "ISIN Div Reinvestment",
      "Scheme Name", "Net Asset Value", "Date">>
BannerLine == <<"Open Ended Schemes(Debt Scheme - Banking and PSU Fund)">>
ShortLine == <<"2", "Fund B", "10.50">>
LineA1 == <<"1", "INF001", "INF002", "Fund A", "10.50", "01-Jan-2024">>
LineA1b == <<"1", "INF001", "INF002", "Fund A", "11.00", "01-Jan-2024">>
LineA2 == <<"1", "INF001", "INF002", "Fund A Renamed", "11.00", "02-Jan-2024">>
LineB1 == <<"2", "INF003", "-", "Fund B", "10.50", "01-Jan-2024">>

IngestLines == {HeaderLine, BannerLine, ShortLine, LineA1, LineA1b, LineA2, LineB1}

TextsOver(lineSet, n) == UNION {[1..k -> lineSet] : k \in 1..n}

\* the two-line feed of the end-to-end example: the first field of both lines is
\* the literal text "Scheme Code"
SchemeCodeLine1 == <<"Scheme Code", "ISIN1", "ISIN2", "Test Fund", "10.50", "01-Jan-2024">>
SchemeCodeLine2 == <<"Scheme Code", "ISIN1", "ISIN2", "Test Fund", "11.00", "02-Jan-2024">>
SchemeCodeFeed == <<SchemeCodeLine1, SchemeCodeLine2>>

\* the same feed with the scheme code 1 as first field
TestFundLine1 == <<"1", "ISIN1", "ISIN2", "Test Fund", "10.50", "01-Jan-2024">>
TestFundLine2 == <<"1", "ISIN1", "ISIN2", "Test Fund", "11.00", "02-Jan-2024">>
TestFundFeed == <<TestFundLine1, TestFundLine2>>

Feeds == TextsOver(IngestLines, MaxBatch) \cup {SchemeCodeFeed, TestFundFeed}

(* ------------------------------------------------------------------ *)
(* Specifications of the store-writing operations                      *)
(*                                                                     *)
(* run and pre record the invocation that has just ended: its handler, *)
(* its text, its status and the RDS store it started from.  The event  *)
(* of an ended invocation is either delivered again (Redeliver, the    *)
(* same handler on the same text) or the record is dropped (Settle)    *)
(* and any operation may run next.                                     *)
(* ------------------------------------------------------------------ *)

NoCall == [fn |-> "none"]
NoRun == [op |-> "none", text |-> << >>, status |-> "none"]

Idle == run = NoRun

Handlers == {"lambda_function", "processor_function"}

\* the result of the handler op on the store and the text
Invoke(op, store, lines) ==
    IF op = "lambda_function" THEN lambda_handler(store, lines)
    ELSE processor_lambda_handler(store, lines)

\* build_database.py __main__ followed by local_to_rds_backfill.py __main__ on an
\* empty local store: the RDS stores a completed backfill leaves
BackfilledStores ==
    LET built == {build_process_data(t) : t \in Feeds}
        saved == {save_to_database(d.metadata, d.nav_history) :
                     d \in {b \in built : ~b.exited}}
    IN  {backfill_write(l) : l \in {x \in saved : ~backfill_exits(x)}}

\* the S3 zones are empty and no invocation is under way
NoObject == << >>
NoObjects == [landing |-> NoObject, raw |-> NoObject]
NotRunning ==
    [op |-> "none", pc |-> "idle", text |-> << >>, rows |-> << >>, status |-> "none",
     landed |-> FALSE, validated |-> "none", copied |-> FALSE, deleted |-> FALSE,
     wrote |-> FALSE, alone |-> TRUE]
RunIds == {1, 2}
NoRuns == [r \in RunIds |-> NotRunning]

\* the analysis side is at rest: no series in hand, no engine cached
NoSeries == << >>
NoEngine == [engine |-> FALSE, secret |-> TRUE, up |-> TRUE]

InitIdle ==
    /\ raw = << >>
    /\ call = NoCall
    /\ sqlite = EmptySqlite
    /\ pre = rds
    /\ run = NoRun
    /\ again = FALSE
    /\ nav_series = NoSeries
    /\ db = NoEngine
    /\ s3 = NoObjects
    /\ runs = NoRuns

\* the daily pipeline starts on a fresh RDS instance or on a backfilled one
Init ==
    /\ rds \in {EmptyRds} \cup BackfilledStores
    /\ InitIdle

\* one run of lambda_function.lambda_handler on the feed t
DailyLambda(t) ==
    LET res == lambda_handler(rds, t)
    IN  /\ Idle
        /\ rds' = res.rds
        /\ pre' = rds
        /\ run' = [op |-> "lambda_function", text |-> t, status |-> res.status]
        /\ again' = FALSE
        /\ UNCHANGED <<raw, call, sqlite, nav_series, db, s3, runs>>

\* one run of processor_function.lambda_handler on the landed file t
Processor(t) ==
    LET res == processor_lambda_handler(rds, t)
    IN  /\ Idle
        /\ rds' = res.rds
        /\ pre' = rds
        /\ run' = [op |-> "processor_function", text |-> t, status |-> res.status]
        /\ again' = FALSE
        /\ UNCHANGED <<raw, call, sqlite, nav_series, db, s3, runs>>

\* the same handler runs once more on the same text, right after its first run
Redeliver ==
    LET res == Invoke(run.op, rds, run.text)
    IN  /\ run.op \in Handlers
        /\ ~again
        /\ rds' = res.rds
        /\ pre' = rds
        /\ run' = [run EXCEPT !.status = res.status]
        /\ again' = TRUE
        /\ UNCHANGED <<raw, call, sqlite, nav_series, db, s3, runs>>

\* the record of the ended invocation is dropped
Settle ==
    /\ ~Idle
    /\ pre' = rds
    /\ run' = NoRun
    /\ again' = FALSE
    /\ UNCHANGED <<raw, call, rds, sqlite, nav_series, db, s3, runs>>

Next ==
    \/ \E t \in Feeds : DailyLambda(t)
    \/ \E t \in Feeds : Processor(t)
    \/ Redeliver
    \/ Settle

Spec == Init /\ [][Next]_vars

\* build_database.py __main__ on the feed t
BuildDatabase(t) ==
    LET dfs == build_process_data(t)
    IN  /\ Idle
        /\ sqlite' = IF dfs.exited THEN sqlite
                     ELSE save_to_database(dfs.metadata, dfs.nav_history)
        /\ pre' = rds
        /\ run' = [op |-> "build_database", text |-> t,
                   status |-> IF dfs.exited THEN "error" ELSE "ok"]
        /\ again' = FALSE
        /\ UNCHANGED <<raw, call, rds, nav_series, db, s3, runs>>

\* local_to_rds_backfill.py __main__
Backfill ==
    /\ Idle
    /\ rds' = IF backfill_exits(sqlite) THEN rds ELSE backfill_write(sqlite)
    /\ pre' = rds
    /\ run' = [op |-> "backfill", text |-> << >>,
               status |-> IF backfill_exits(sqlite) THEN "error" ELSE "ok"]
    /\ again' = FALSE
    /\ UNCHANGED <<raw, call, sqlite, nav_series, db, s3, runs>>

InitStore ==
    /\ rds = EmptyRds
    /\ InitIdle

NextStore ==
    \/ \E t \in Feeds : BuildDatabase(t)
    \/ Backfill
    \/ \E t \in Feeds : DailyLambda(t)
    \/ \E t \in Feeds : Processor(t)
    \/ Settle

\* every writer of the two stores: rebuild, backfill and the two daily handlers
SpecStore == InitStore /\ [][NextStore]_vars

(* ------------------------------------------------------------------ *)
(* Properties of the store-writing operations                          *)
(* ------------------------------------------------------------------ *)

Ingested == run.op \in Handlers

\* the clean records the ended run derived from its text
BatchRows ==
    IF run.op = "lambda_function" THEN process_daily_data(run.text).rows
    ELSE IF run.op = "processor_function" THEN processor_process_data(run.text).rows
    ELSE << >>

BatchKeys == {nav_key(BatchRows[i]) : i \in DOMAIN BatchRows}
BatchCodes == {BatchRows[i].scheme_code : i \in DOMAIN BatchRows}

NavKeysOf(table) == {nav_key(r) : r \in BagToSet(table)}

UniquePairs(table) == \A k \in NavKeysOf(table) : NavRowsFor(table, k) <= 1

\* C1: after any sequence of store-writing operations (the two daily handlers, the
\* full rebuild and the backfill) every nav_history table holds at most one row per
\* (scheme_code, date) pair.
C1_NavHistoryUnique == UniquePairs(sqlite.nav) /\ UniquePairs(rds.nav)

\* C2: an ingestion run on a text that validate_raw_data rejects leaves the store
\* as it was before the run.
C2_RejectedTextWritesNothing ==
    (Ingested /\ ~validate_raw_data(run.text, DefaultSampleSize, DefaultThresholdPct))
        => rds = pre

\* C3: running a handler on the same text a second time, right after the first
\* run, leaves funds_metadata and nav_history as the first run left them.
C3_Idempotent == again => rds = pre

C3_Witness ==
    /\ again
    /\ run.status = "ok"
    /\ BatchKeys # {}
    /\ BatchKeys \subseteq NavKeysOf(rds.nav)

\* C4: after a successful ingestion, every pair of the batch that was already in
\* nav_history has exactly one row, carrying the batch's nav, and the rows of
\* every pair that is not in the batch are unchanged.
C4_LastWriteWins ==
    (Ingested /\ run.status = "ok") =>
        /\ \A i \in DOMAIN BatchRows :
              nav_key(BatchRows[i]) \in NavKeysOf(pre.nav) =>
                  /\ NavRowsFor(rds.nav, nav_key(BatchRows[i])) = 1
                  /\ CopiesIn(nav_row(BatchRows[i]), rds.nav) = 1
        /\ \A r \in BagToSet(pre.nav) \cup BagToSet(rds.nav) :
              nav_key(r) \notin BatchKeys => CopiesIn(r, rds.nav) = CopiesIn(r, pre.nav)

C4_Witness ==
    /\ Ingested
    /\ run.status = "ok"
    /\ \E i \in DOMAIN BatchRows :
          /\ nav_key(BatchRows[i]) \in NavKeysOf(pre.nav)
          /\ CopiesIn(nav_row(BatchRows[i]), pre.nav) = 0
    /\ \E r \in BagToSet(pre.nav) : nav_key(r) \notin BatchKeys

\* C5: an ingestion run applies all of its writes or none: a run that ends in an
\* error leaves funds_metadata and nav_history as they were before the run.
C5_AllOrNothing == (Ingested /\ run.status = "error") => rds = pre

\* the tables the run started from accept the handler's ON CONFLICT statements
StoreAccepts ==
    /\ pre.navKey # "plain"
    /\ run.op = "processor_function" => pre.metaKey # "plain"

\* the last row of the batch for the pair k
LastOccurrence(k) ==
    BatchRows[CHOOSE i \in DOMAIN BatchRows :
                 /\ nav_key(BatchRows[i]) = k
                 /\ \A j \in DOMAIN BatchRows : nav_key(BatchRows[j]) = k => j <= i]

\* C6: a validated batch whose clean records repeat a (scheme_code, date) pair is
\* ingested successfully, and nav_history then holds exactly one row for the pair,
\* carrying the nav of its last occurrence.
C6_DuplicatePairsResolved ==
    ( /\ Ingested
      /\ StoreAccepts
      /\ validate_raw_data(run.text, DefaultSampleSize, DefaultThresholdPct)
      /\ \E i, j \in DOMAIN BatchRows :
            i < j /\ nav_key(BatchRows[i]) = nav_key(BatchRows[j]) )
    => /\ run.status = "ok"
       /\ \A k \in BatchKeys :
             /\ NavRowsFor(rds.nav, k) = 1
             /\ CopiesIn(nav_row(LastOccurrence(k)), rds.nav) = 1

\* C7: after a successful ingestion every fund that was in funds_metadata before
\* the run and is absent from the batch is still there with its previous name, and
\* every scheme_code of the batch has exactly one row.
C7_MetadataUpsertByKey ==
    (Ingested /\ run.status = "ok") =>
        /\ \A r \in BagToSet(pre.meta) :
              r.scheme_code \notin BatchCodes => CopiesIn(r, rds.meta) = 1
        /\ \A c \in BatchCodes : MetaRowsFor(rds.meta, c) = 1

\* C12 (as stated): ingesting the two-line feed whose lines start with the field
\* "Scheme Code" into an empty store leaves two nav_history rows of one fund and
\* exactly one funds_metadata row, named "Test Fund".
C12_SchemeCodeFeed ==
    (Ingested /\ pre = EmptyRds /\ run.text = SchemeCodeFeed) =>
        /\ BagCardinality(rds.nav) = 2
        /\ BagCardinality(rds.meta) = 1
        /\ \A m \in BagToSet(rds.meta) :
              /\ m.scheme_name = "Test Fund"
              /\ \A r \in BagToSet(rds.nav) : r.scheme_code = m.scheme_code

\* C12 (amended): the feed with the first field "Scheme Code" is dropped line by
\* line and the run writes nothing; the same two lines with the scheme code 1,
\* ingested into an empty store, leave the two nav_history rows (1, day 1, 10.50)
\* and (1, day 2, 11.00) and the single funds_metadata row (1, "Test Fund").
C12_TestFundFeed ==
    /\ (Ingested /\ run.text = SchemeCodeFeed) =>
          /\ run.status = "nodata"
          /\ rds = pre
    /\ (Ingested /\ pre = EmptyRds /\ run.text = TestFundFeed) =>
          /\ run.status = "ok"
          /\ rds.nav = SetToBag({[scheme_code |-> 1, date |-> 1, nav |-> Num(105)],
                                 [scheme_code |-> 1, date |-> 2, nav |-> Num(110)]})
          /\ rds.meta = SetToBag({[scheme_code |-> 1, scheme_name |-> "Test Fund"]})

C12_Witness ==
    /\ Ingested
    /\ pre = EmptyRds
    /\ run.text = TestFundFeed
    /\ BagCardinality(rds.nav) = 2
    /\ BagCardinality(rds.meta) = 1

(* ------------------------------------------------------------------ *)
(* Specification of the parsers and the validator on given texts       *)
(* ------------------------------------------------------------------ *)

SevenFieldLine == <<"1", "INF001", "INF002", "Fund A", "10.50", "01-Jan-2024", "x">>
TwoFieldLine == <<"Fund House", "">>
BlankLine == <<"">>
FractionCodeLine == <<"7.5", "INF001", "INF002", "Fund A", "10.50", "01-Jan-2024">>
InfCodeLine == <<"inf", "INF001", "INF002", "Fund A", "10.50", "01-Jan-2024">>
ZeroNavLine == <<"1", "INF001", "INF002", "Fund A", "0", "01-Jan-2024">>
NegativeNavLine == <<"1", "INF001", "INF002", "Fund A", "-3", "02-Jan-2024">>
NoNavLine == <<"2", "INF003", "-", "Fund B", "N.A.", "01-Jan-2024">>
BadDateLine == <<"2", "INF003", "-", "Fund B", "11.00", "2024-01-02">>

ParseLines ==
    {HeaderLine, BannerLine, ShortLine, LineA1, LineA2, LineB1, SevenFieldLine,
     TwoFieldLine, BlankLine, FractionCodeLine, InfCodeLine, ZeroNavLine,
     NegativeNavLine, NoNavLine, BadDateLine}

\* a text of a six-field lines, then b lines with another field count, then c
\* lines without ';'
Blocks(a, b, c) ==
    [i \in 1..(a + b + c) |->
        IF i <= a THEN LineA1 ELSE IF i <= a + b THEN ShortLine ELSE BannerLine]

\* the same lines in the opposite order
BlocksReversed(a, b, c) ==
    [i \in 1..(a + b + c) |-> Blocks(a, b, c)[a + b + c + 1 - i]]

SampleShapes ==
    {<<70, 15, 15>>, <<95, 5, 0>>, <<90, 10, 0>>, <<90, 10, 5>>, <<89, 11, 0>>, <<9, 1, 0>>,
     <<100, 30, 0>>, <<5, 0, 100>>, <<0, 3, 100>>, <<0, 0, 101>>, <<99, 0, 1>>}

SampleTexts ==
    {Blocks(x[1], x[2], x[3]) : x \in SampleShapes}
        \cup {BlocksReversed(x[1], x[2], x[3]) : x \in SampleShapes}

SampleSizes == {1, 2, DefaultSampleSize}
ThresholdPcts == {50, DefaultThresholdPct, 100}

InitParse ==
    /\ raw \in TextsOver(ParseLines, MaxLines) \cup SampleTexts
    /\ call = NoCall
    /\ rds = EmptyRds
    /\ sqlite = EmptySqlite
    /\ pre = EmptyRds
    /\ run = NoRun
    /\ again = FALSE
    /\ nav_series = NoSeries
    /\ db = NoEngine
    /\ s3 = NoObjects
    /\ runs = NoRuns

\* validate_raw_data(raw, n, pct / 100)
CallValidate(n, pct) ==
    /\ call' = [fn |-> "validate_raw_data", sample_size |-> n, threshold_pct |-> pct,
                result |-> validate_raw_data(raw, n, pct)]
    /\ UNCHANGED <<raw, rds, sqlite, pre, run, again, nav_series, db, s3, runs>>

\* lambda_function.process_daily_data(raw)
CallProcessDaily ==
    /\ call' = [fn |-> "process_daily_data",
                candidates |-> processed_records(raw),
                raised |-> process_daily_data(raw).raised,
                rows |-> process_daily_data(raw).rows]
    /\ UNCHANGED <<raw, rds, sqlite, pre, run, again, nav_series, db, s3, runs>>

\* processor_function.process_data(raw)
CallProcessorProcess ==
    /\ call' = [fn |-> "processor_function.process_data",
                candidates |-> processed_records(raw),
                raised |-> processor_process_data(raw).raised,
                rows |-> processor_process_data(raw).rows]
    /\ UNCHANGED <<raw, rds, sqlite, pre, run, again, nav_series, db, s3, runs>>

\* build_database.process_data(raw): the rows of df before it is split in two
CallBuildProcess ==
    /\ call' = [fn |-> "build_database.process_data",
                candidates |-> processed_records(raw),
                raised |-> build_process_data(raw).exited,
                rows |-> build_process_data(raw).nav_history]
    /\ UNCHANGED <<raw, rds, sqlite, pre, run, again, nav_series, db, s3, runs>>

NextParse ==
    \/ \E n \in SampleSizes, pct \in ThresholdPcts : CallValidate(n, pct)
    \/ CallProcessDaily
    \/ CallProcessorProcess
    \/ CallBuildProcess

SpecParse == InitParse /\ [][NextParse]_vars

(* ------------------------------------------------------------------ *)
(* Properties of the validator and the parsers                         *)
(* ------------------------------------------------------------------ *)

Validated == call.fn = "validate_raw_data"
Parsed ==
    call.fn \in {"process_daily_data", "processor_function.process_data",
                 "build_database.process_data"}

\* the sampled lines that hold a ';', and those of them with exactly 6 fields
SampledDataLines(n) == {i \in 1..Min(n, Len(raw)) : Len(raw[i]) >= 2}
SampledValidLines(n) == {i \in SampledDataLines(n) : Len(raw[i]) = 6}

\* C8: validate_raw_data looks at the first sample_size lines only; it returns
\* false when none of them holds a ';' or when valid / data is strictly below the
\* threshold, and true otherwise, also when the ratio equals the threshold;
\* at the defaults 70 of 85 fails and 95 of 100 passes.
C8_ValidatorThreshold ==
    /\ Validated =>
          LET data  == Cardinality(SampledDataLines(call.sample_size))
              valid == Cardinality(SampledValidLines(call.sample_size))
          IN  call.result = (data > 0 /\ ~(valid * 100 < call.threshold_pct * data))
    /\ ( /\ Validated
         /\ call.sample_size = DefaultSampleSize
         /\ call.threshold_pct = DefaultThresholdPct ) =>
          /\ raw = Blocks(70, 15, 15) => call.result = FALSE
          /\ raw = Blocks(95, 5, 0) => call.result = TRUE

C8_Witness ==
    /\ Validated
    /\ call.sample_size = DefaultSampleSize
    /\ call.threshold_pct = DefaultThresholdPct
    /\ Len(raw) > DefaultSampleSize
    /\ Cardinality(SampledValidLines(DefaultSampleSize)) * 100
          = DefaultThresholdPct * Cardinality(SampledDataLines(DefaultSampleSize))
    /\ call.result = TRUE

\* the lines of the text that split into exactly 6 fields, and the k-th of them
SixFieldLines == {i \in DOMAIN raw : Len(raw[i]) = 6}
KthOf(indices, k) == CHOOSE i \in indices : Cardinality({j \in indices : j < i}) = k - 1

Coercible(s) == to_numeric(s).k = "num"

\* the 6-field lines whose scheme_code is coercible to an integer, whose nav is
\* coercible to a number greater than 0 and whose date parses
GoodLines ==
    {i \in SixFieldLines :
        /\ Coercible(raw[i][1])
        /\ Coercible(raw[i][5]) /\ to_numeric(raw[i][5]).v > 0
        /\ to_datetime(raw[i][6]).k = "date"}

\* C10: every record a parser outputs has an integer scheme_code, a nav greater
\* than 0 and a parsed date, and a 6-field line is dropped exactly when its
\* scheme_code or nav is not coercible, its nav is <= 0 or its date does not parse:
\* the output holds one record per remaining line, in the order of the text.
C10_TypedRecords ==
    Parsed =>
        /\ \A k \in DOMAIN call.rows :
              /\ call.rows[k].scheme_code \in Int
              /\ nav_positive(call.rows[k].nav)
              /\ call.rows[k].date \in Int
        /\ Len(call.rows) = Cardinality(GoodLines)
        /\ \A k \in 1..Len(call.rows) :
              LET line == raw[KthOf(GoodLines, k)]
              IN  /\ call.rows[k].scheme_code = astype_int(to_numeric(line[1]))
                  /\ call.rows[k].nav = to_numeric(line[5])
                  /\ Day(call.rows[k].date) = to_datetime(line[6])

\* C11: no parser raises or ends the process, whatever the text: a text without a
\* valid record yields an empty result.
C11_ParsingTotal == Parsed => ~call.raised

(* ------------------------------------------------------------------ *)
(* Metrics engine (core/analysis_engine.py)                            *)
(*                                                                     *)
(* A NAV series models a pandas Series of navs indexed by date: a      *)
(* sequence of observations [date, nav].  A date is the number         *)
(* 100 * (months since January 2024) + (day of the month), with days   *)
(* 1..28, so that 01-Jan-2024 is 1 and dates compare as numbers.  A    *)
(* nav is a float in tenths (Num).                                     *)
(* The floats the engine computes are modelled as follows.             *)
(*   - An annualized return is kept exactly, as the growth it is the   *)
(*     root of: Growth(l, p, m) stands for (l / p) ^ (12 / m) - 1.     *)
(*   - Daily percentage changes, their mean and standard deviation,    *)
(*     the volatility and the Sharpe ratio are fixed-point numbers in  *)
(*     millionths (Ppm), rounded down; the standard deviation has a    *)
(*     resolution of 100 millionths.                                   *)
(* ------------------------------------------------------------------ *)

\* RISK_FREE_RATE = 0.07, in millionths
RISK_FREE_RATE == 70000

\* the 252 trading days of a year: the minimum length for a Sharpe ratio and the
\* annualization factor sqrt(252)
TradingDays == 252

\* np.sqrt(252) = 15.8745..., in thousandths
SqrtTradingDays == 15875

Ppm(v) == [k |-> "num", v |-> v]

\* a / b rounded down, for b # 0
Quot(a, b) == IF b > 0 THEN a \div b ELSE (-a) \div (-b)

isqrt(x) == CHOOSE r \in 0..46339 : r * r <= x /\ (r + 1) * (r + 1) > x

\* DataFrame.sort_index() / Series.sort_index(): ascending by date; observations
\* of the same date keep their order
IsSorted(s) == \A i \in 1..(Len(s) - 1) : s[i].date < s[i + 1].date

sort_index(s) ==
    IF IsSorted(s) THEN s
    ELSE LET n    == Len(s)
             rank == [i \in 1..n |->
                         Cardinality({j \in 1..n : \/ s[j].date < s[i].date
                                                   \/ s[j].date = s[i].date /\ j < i}) + 1]
                     @@ << >>
         IN  [k \in 1..n |-> s[CHOOSE i \in 1..n : rank[i] = k]]

\* latest_date - pd.DateOffset(months=months), for days of the month up to 28
minus_months(date, months) == date - 100 * months

PeriodNames == {"1 Month", "6 Months", "1 Year", "3 Years"}

\* periods = {'1 Month': 1, '6 Months': 6, '1 Year': 12, '3 Years': 36}
periods ==
    [name \in PeriodNames |->
        CASE name = "1 Month"  -> 1
          [] name = "6 Months" -> 6
          [] name = "1 Year"   -> 12
          [] name = "3 Years"  -> 36]

Growth(latest, past, months) ==
    [k |-> "num", latest |-> latest, past |-> past, months |-> months]

\* (1 + total_return) ** (1 / num_years) - 1 with total_return = latest_nav / past_nav - 1,
\* for past_nav > 0: 1 / num_years is 12.0, 2.0, 1.0 or 0.333..., and numpy gives
\* nan for a negative base with the fractional exponent
annualized_return(latest_nav, past_nav, months) ==
    IF latest_nav.v < 0 /\ 12 % months # 0 THEN NaN
    ELSE Growth(latest_nav.v, past_nav.v, months)

period_return_first(sorted, months) ==
    LET latest_date == sorted[Len(sorted)].date
        latest_nav  == sorted[Len(sorted)].nav
        start_date  == minus_months(latest_date, months)
        in_past(o)  == o.date <= start_date
        past_nav_series == SelectSeq(sorted, in_past)
    IN  IF past_nav_series = << >> THEN NaN
        ELSE LET past_nav == past_nav_series[1].nav
             IN  IF past_nav.v <= 0 THEN NaN
                 ELSE annualized_return(latest_nav, past_nav, months)

\* the body of the loop "for name, months in periods.items()" on the sorted series
period_return(sorted, months) ==
    LET latest_date == sorted[Len(sorted)].date
        latest_nav  == sorted[Len(sorted)].nav
        start_date  == minus_months(latest_date, months)
        in_past(o)  == o.date <= start_date
        past_nav_series == SelectSeq(sorted, in_past)
    IN  IF past_nav_series = << >> THEN NaN
        ELSE LET past_nav == past_nav_series[Len(past_nav_series)].nav
             IN  IF past_nav.v <= 0 THEN NaN
                 ELSE annualized_return(latest_nav, past_nav, months)

\* calculate_returns_robust: a mapping from period name to return, empty for an
\* empty series
calculate_returns_robust(series) ==
    LET sorted == sort_index(series)
    IN  IF sorted = << >> THEN << >>
        ELSE [name \in PeriodNames |-> period_return(sorted, periods[name])]

\* one element of Series.pct_change(): cur / prev - 1 (a division by zero gives
\* nan for 0 / 0 and an infinity otherwise)
change(cur, prev) ==
    IF prev.v = 0 THEN (IF cur.v = 0 THEN NaN ELSE PosInf)
    ELSE Ppm(Quot(cur.v * 1000000, prev.v) - 1000000)

\* nav_series.pct_change(): nan first, then the change from each observation to the next
pct_change(series) ==
    [i \in 1..Len(series) |->
        IF i = 1 THEN NaN ELSE change(series[i].nav, series[i - 1].nav)] @@ << >>

notna(x) == x.k # "nan"

\* Series.dropna()
dropna(xs) == SelectSeq(xs, notna)

RECURSIVE SumRange(_, _, _)
SumRange(xs, lo, hi) ==
    IF lo > hi THEN 0
    ELSE IF lo = hi THEN xs[lo]
    ELSE LET mid == (lo + hi) \div 2
         IN  SumRange(xs, lo, mid) + SumRange(xs, mid + 1, hi)

\* Series.mean() of finite values
mean_of(xs) ==
    LET vals == [i \in 1..Len(xs) |-> xs[i].v] @@ << >>
    IN  Quot(SumRange(vals, 1, Len(vals)), Len(vals))

\* Series.std(): sample standard deviation (ddof = 1) of the values that are not
\* nan; nan for fewer than two values and when a value is infinite
std(xs) ==
    LET valid == dropna(xs)
        n     == Len(valid)
    IN  IF n < 2 THEN NaN
        ELSE IF \E i \in 1..n : valid[i].k = "inf" THEN NaN
        ELSE LET m    == mean_of(valid)
                 sq   == [i \in 1..n |->
                             Quot(valid[i].v - m, 100) * Quot(valid[i].v - m, 100)] @@ << >>
                 var  == SumRange(sq, 1, n) \div (n - 1)
             IN  Ppm(100 * isqrt(var))

\* (excess_returns.mean() / std_dev) * np.sqrt(252) for a finite std_dev # 0
sharpe_value(daily_returns, std_dev) ==
    LET daily_risk_free_rate == Quot(RISK_FREE_RATE, TradingDays)
        excess_mean == mean_of(daily_returns) - daily_risk_free_rate
    IN  Ppm(10 * Quot(excess_mean * SqrtTradingDays, std_dev.v \div 100))

calculate_sharpe_ratio_no_guard(series) ==
    IF Len(series) < TradingDays THEN NaN
    ELSE LET daily_returns == dropna(pct_change(series))
             std_dev       == std(daily_returns)
         IN  IF std_dev.k = "nan" THEN NaN
             ELSE IF std_dev.v = 0 THEN PosInf
             ELSE sharpe_value(daily_returns, std_dev)

calculate_sharpe_ratio_guard_le(series) ==
    IF Len(series) <= TradingDays THEN NaN
    ELSE LET daily_returns == dropna(pct_change(series))
             std_dev       == std(daily_returns)
         IN  IF std_dev.k = "num" /\ std_dev.v = 0 THEN Ppm(0)
             ELSE IF std_dev.k = "nan" THEN NaN
             ELSE sharpe_value(daily_returns, std_dev)

\* calculate_sharpe_ratio
calculate_sharpe_ratio(series) ==
    IF Len(series) < TradingDays THEN NaN
    ELSE LET daily_returns == dropna(pct_change(series))
             std_dev       == std(daily_returns)
         IN  IF std_dev.k = "num" /\ std_dev.v = 0 THEN Ppm(0)
             ELSE IF std_dev.k = "nan" THEN NaN
             ELSE sharpe_value(daily_returns, std_dev)

\* nav_series.pct_change().std() * np.sqrt(252)
annual_volatility(series) ==
    LET s == std(pct_change(series))
    IN  IF s.k = "nan" THEN NaN ELSE Ppm(Quot((s.v \div 100) * SqrtTradingDays, 10))

(* ------------------------------------------------------------------ *)
(* Read side of the store (core/database.py)                           *)
(*                                                                     *)
(* db is the environment of the read side: engine is the module-level  *)
(* cache _engine (TRUE when an engine is cached), secret tells whether *)
(* Secrets Manager hands out the credentials, up whether the database  *)
(* accepts connections.  A DataFrame is a record of its columns (the   *)
(* index aside) and its rows.                                          *)
(* ------------------------------------------------------------------ *)

\* pd.DataFrame()
EmptyDataFrame == [columns |-> {}, rows |-> << >>]

\* get_db_engine: the cached engine, else a new engine from the secret (cached),
\* else None; the result and the cache afterwards
get_db_engine(d) ==
    IF d.engine THEN [engine |-> TRUE, db |-> d]
    ELSE IF d.secret THEN [engine |-> TRUE, db |-> [d EXCEPT !.engine = TRUE]]
    ELSE [engine |-> FALSE, db |-> d]

\* pd.read_sql raises an SQLAlchemyError: no connection, or no table nav_history
read_sql_fails(d, store) == ~d.up \/ store.navKey = "absent"

read_nav_any_code(table, code) ==
    LET entries == UNION {{<<r, c>> : c \in 1..table[r]} : r \in BagToSet(table)}
        before(f, e) == \/ f[1].date < e[1].date
                        \/ f[1].date = e[1].date /\ f[1].nav.v < e[1].nav.v
                        \/ f[1].date = e[1].date /\ f[1].nav.v = e[1].nav.v /\ f[2] < e[2]
        rank == [e \in entries |-> Cardinality({f \in entries : before(f, e)}) + 1] @@ << >>
    IN  [k \in 1..Cardinality(entries) |->
            LET e == CHOOSE e \in entries : rank[e] = k
            IN  [date |-> e[1].date, nav |-> e[1].nav]]

\* SELECT date, nav FROM nav_history WHERE scheme_code = %(code)s, read with
\* index_col='date' and sorted with sort_index(): the rows of the fund by
\* ascending date (rows of one date by nav)
read_nav(table, code) ==
    LET hits    == {r \in BagToSet(table) : r.scheme_code = code}
        entries == UNION {{<<r, c>> : c \in 1..table[r]} : r \in hits}
        before(f, e) == \/ f[1].date < e[1].date
                        \/ f[1].date = e[1].date /\ f[1].nav.v < e[1].nav.v
                        \/ f[1].date = e[1].date /\ f[1].nav.v = e[1].nav.v /\ f[2] < e[2]
        rank == [e \in entries |-> Cardinality({f \in entries : before(f, e)}) + 1] @@ << >>
    IN  [k \in 1..Cardinality(entries) |->
            LET e == CHOOSE e \in entries : rank[e] = k
            IN  [date |-> e[1].date, nav |-> e[1].nav]]

\* get_nav_history_by_code: the DataFrame returned and the engine cache afterwards
get_nav_history_by_code(d, store, scheme_code) ==
    LET e == get_db_engine(d)
    IN  IF ~e.engine THEN [df |-> EmptyDataFrame, db |-> e.db]
        ELSE IF read_sql_fails(e.db, store) THEN [df |-> EmptyDataFrame, db |-> e.db]
        ELSE [df |-> [columns |-> {"nav"}, rows |-> read_nav(store.nav, scheme_code)],
              db |-> e.db]

(* ------------------------------------------------------------------ *)
(* Scorecard (core/analysis_engine.py, generate_fund_scorecard)        *)
(* ------------------------------------------------------------------ *)

\* returns.get(name, 0)
returns_get(returns, name) ==
    IF name \in DOMAIN returns THEN returns[name] ELSE Ppm(0)

\* x > pct / 100 for a return x of the 1-year or the 3-year period (or the
\* default 0): false for nan; (l / p) ^ (12 / m) - 1 > pct / 100 is decided exactly
return_exceeds(x, pct) ==
    IF x.k = "nan" THEN FALSE
    ELSE IF "months" \notin DOMAIN x THEN x.v > pct * 10000
    ELSE IF x.months = 12 THEN 100 * x.latest > (100 + pct) * x.past
    ELSE x.latest * 1000000 > (100 + pct) * (100 + pct) * (100 + pct) * x.past

perf_score_second_rung_10(returns) ==
    (IF return_exceeds(returns_get(returns, "1 Year"), 20) THEN 25
     ELSE IF return_exceeds(returns_get(returns, "1 Year"), 10) THEN 10 ELSE 0)
    + (IF return_exceeds(returns_get(returns, "3 Years"), 15) THEN 25
       ELSE IF return_exceeds(returns_get(returns, "3 Years"), 10) THEN 10 ELSE 0)

\* perf_score: the two if / elif ladders on the 1-year and the 3-year return
perf_score(returns) ==
    LET after_1y == IF return_exceeds(returns_get(returns, "1 Year"), 20) THEN 0 + 25
                    ELSE IF return_exceeds(returns_get(returns, "1 Year"), 10) THEN 0 + 10
                    ELSE 0
    IN  IF return_exceeds(returns_get(returns, "3 Years"), 15) THEN after_1y + 25
        ELSE IF return_exceeds(returns_get(returns, "3 Years"), 10) THEN after_1y + 15
        ELSE after_1y

\* pd.notna(sharpe) and sharpe > milli / 1000
sharpe_exceeds(sharpe, milli) == sharpe.k # "nan" /\ (sharpe.k = "inf" \/ sharpe.v > milli * 1000)

risk_score_accumulating(sharpe) ==
    (IF sharpe_exceeds(sharpe, 1000) THEN 50 ELSE 0)
    + (IF sharpe_exceeds(sharpe, 750) THEN 35 ELSE 0)
    + (IF sharpe_exceeds(sharpe, 500) THEN 20 ELSE 0)

\* risk_score: the if / elif ladder on the Sharpe ratio
risk_score(sharpe) ==
    IF sharpe_exceeds(sharpe, 1000) THEN 50
    ELSE IF sharpe_exceeds(sharpe, 750) THEN 35
    ELSE IF sharpe_exceeds(sharpe, 500) THEN 20
    ELSE 0

\* the scorecard of a non-empty NAV series
scorecard_of(series) ==
    LET returns    == calculate_returns_robust(series)
        sharpe     == calculate_sharpe_ratio(series)
        volatility == annual_volatility(series)
        score_components ==
            ("Performance" :> perf_score(returns))
                @@ ("Risk-Adjusted Return" :> risk_score(sharpe))
        final_score == score_components["Performance"]
                           + score_components["Risk-Adjusted Return"]
    IN  [metrics |-> ("annual_volatility" :> volatility) @@ ("sharpe_ratio" :> sharpe)
                         @@ returns,
         scores |-> [components |-> score_components, final_score |-> final_score]]

EmptyNavError == [error |-> "NAV data is empty or invalid for this fund."]

generate_fund_scorecard_no_empty_check(d, store, scheme_code) ==
    LET h == get_nav_history_by_code(d, store, scheme_code)
    IN  [result |-> scorecard_of(h.df.rows), db |-> h.db]

\* generate_fund_scorecard: the mapping returned and the engine cache afterwards
generate_fund_scorecard(d, store, scheme_code) ==
    LET h           == get_nav_history_by_code(d, store, scheme_code)
        nav_history == h.df
    IN  IF nav_history.rows = << >> \/ "nav" \notin nav_history.columns
        THEN [result |-> EmptyNavError, db |-> h.db]
        ELSE [result |-> scorecard_of(nav_history.rows), db |-> h.db]

(* ------------------------------------------------------------------ *)
(* NAV series of the analysis                                          *)
(* ------------------------------------------------------------------ *)

Obs(date, tenths) == [date |-> date, nav |-> Num(tenths)]

\* the date of the i-th observation (from 0) of a daily series: 21 observations
\* a month, from January 2027 (month 36) on
DailyDate(i) == 100 * (36 + (i \div 21)) + (i % 21) + 1

\* older observations followed by n daily observations that alternate between
\* the navs p and q
Alternating(older, p, q, n) ==
    older \o [i \in 1..n |-> Obs(DailyDate(i - 1), IF i % 2 = 1 THEN p ELSE q)]

\* observations of December 2024 and December 2026, 3 years and 1 year before
\* the end of a daily series
LongHistory == <<Obs(1101, 70), Obs(3501, 90)>>
YearHistory == <<Obs(3501, 95)>>
FlatHistory == <<Obs(1101, 100)>>

\* the longest daily series has TradingDays + MaxExtraDays observations
MaxExtraDays == 1

DailyLengths == (TradingDays - 1)..(TradingDays + MaxExtraDays)

\* older observations and the two navs of the daily part
DailyShapes ==
    { <<LongHistory, 100, 120>>,
      <<LongHistory, 120, 100>>,
      <<LongHistory, 100, 110>>,
      <<YearHistory, 100, 110>>,
      << << >>, 100, 110>>,
      << << >>, 200, 210>>,
      << << >>, 100, 100>>,
      <<FlatHistory, 100, 100>> }

\* series of TradingDays - 1 observations and more, the older ones included
DailySeries ==
    { Alternating(x[1], x[2], x[3], n - Len(x[1])) : x \in DailyShapes, n \in DailyLengths }

ShortSeries ==
    { << >>,
      <<Obs(4801, 100)>>,
      <<Obs(4801, 100), Obs(4802, 110)>>,
      <<Obs(4801, 100), Obs(4802, 110), Obs(4803, 105)>>,
      <<Obs(1201, 100), Obs(3601, 110), Obs(4701, 120), Obs(4801, 130)>>,
      <<Obs(4801, 130), Obs(1201, 100), Obs(3601, 110)>>,
      <<Obs(3601, 100), Obs(4801, 125)>>,
      <<Obs(3601, 100), Obs(4801, 120)>>,
      <<Obs(1201, 0), Obs(3601, 100), Obs(4801, 110)>>,
      <<Obs(1201, 100), Obs(3601, -100), Obs(4801, 110)>>,
      <<Obs(1201, 100), Obs(4801, -10)>>,
      <<Obs(3601, 100), Obs(4801, 0)>>,
      <<Obs(4801, 100), Obs(4802, 0), Obs(4803, 100)>> }

AnalysisSeries == DailySeries \cup ShortSeries

\* the clean records of one fund for the observations of a series: what a parser
\* outputs for them (observations with nav <= 0 are dropped)
FundRecords(code, name, series) ==
    SelectSeq([i \in 1..Len(series) |->
                  [scheme_code |-> code, scheme_name |-> name,
                   nav |-> series[i].nav, date |-> series[i].date]],
              keep_positive_nav)

OtherFundSeries == <<Obs(4701, 190), Obs(4801, 200)>>

\* the RDS store after processor_function has ingested the series as fund 1,
\* together with a second fund, into a fresh database
StoreHolding(series) ==
    processor_load(EmptyRds, FundRecords(1, "Fund A", series)
                                 \o FundRecords(2, "Fund B", OtherFundSeries)).rds

\* scheme codes asked for: the two funds, and the invalid code of test_db.py
QueryCodes == {1, 2, -1}

(* ------------------------------------------------------------------ *)
(* Specification of the analysis: the metric functions on a given NAV  *)
(* series, and the read side and the scorecard on the store that holds *)
(* the series.  A call is made when no result is pending (call =       *)
(* NoCall); Return drops the result.                                   *)
(* ------------------------------------------------------------------ *)

InitAnalysis ==
    /\ nav_series \in AnalysisSeries
    /\ rds \in {StoreHolding(nav_series), EmptyRds}
    /\ db \in [engine : {FALSE}, secret : BOOLEAN, up : BOOLEAN]
    /\ s3 = NoObjects
    /\ runs = NoRuns
    /\ raw = << >>
    /\ call = NoCall
    /\ sqlite = EmptySqlite
    /\ pre = rds
    /\ run = NoRun
    /\ again = FALSE

\* calculate_returns_robust(nav_series)
CallReturns ==
    /\ call = NoCall
    /\ call' = [fn |-> "calculate_returns_robust",
                result |-> calculate_returns_robust(nav_series)]
    /\ UNCHANGED <<raw, rds, sqlite, pre, run, again, nav_series, db, s3, runs>>

\* calculate_sharpe_ratio(nav_series)
CallSharpe ==
    /\ call = NoCall
    /\ call' = [fn |-> "calculate_sharpe_ratio",
                result |-> calculate_sharpe_ratio(nav_series)]
    /\ UNCHANGED <<raw, rds, sqlite, pre, run, again, nav_series, db, s3, runs>>

\* get_nav_history_by_code(code)
CallNavHistory(code) ==
    LET h == get_nav_history_by_code(db, rds, code)
    IN  /\ call = NoCall
        /\ call' = [fn |-> "get_nav_history_by_code", code |-> code, result |-> h.df]
        /\ db' = h.db
        /\ UNCHANGED <<raw, rds, sqlite, pre, run, again, nav_series, s3, runs>>

\* generate_fund_scorecard(code)
CallScorecard(code) ==
    LET c == generate_fund_scorecard(db, rds, code)
    IN  /\ call = NoCall
        /\ call' = [fn |-> "generate_fund_scorecard", code |-> code, result |-> c.result]
        /\ db' = c.db
        /\ UNCHANGED <<raw, rds, sqlite, pre, run, again, nav_series, s3, runs>>

\* the caller is done with the result
Return ==
    /\ call # NoCall
    /\ call' = NoCall
    /\ UNCHANGED <<raw, rds, sqlite, pre, run, again, nav_series, db, s3, runs>>

\* Secrets Manager starts or stops handing out the credentials
SecretChange ==
    /\ call = NoCall
    /\ db' = [db EXCEPT !.secret = ~db.secret]
    /\ UNCHANGED <<raw, call, rds, sqlite, pre, run, again, nav_series, s3, runs>>

\* the database starts or stops accepting connections
DatabaseChange ==
    /\ call = NoCall
    /\ db' = [db EXCEPT !.up = ~db.up]
    /\ UNCHANGED <<raw, call, rds, sqlite, pre, run, again, nav_series, s3, runs>>

NextAnalysis ==
    \/ CallReturns
    \/ CallSharpe
    \/ \E code \in QueryCodes : CallNavHistory(code)
    \/ \E code \in QueryCodes : CallScorecard(code)
    \/ Return
    \/ SecretChange
    \/ DatabaseChange

SpecAnalysis == InitAnalysis /\ [][NextAnalysis]_vars

(* ------------------------------------------------------------------ *)
(* Properties of the analysis                                          *)
(* ------------------------------------------------------------------ *)

ReturnsCalled == call.fn = "calculate_returns_robust"
SharpeCalled == call.fn = "calculate_sharpe_ratio"
NavHistoryCalled == call.fn = "get_nav_history_by_code"
ScorecardCalled == call.fn = "generate_fund_scorecard"

\* the observation of the greatest date among a non-empty set of observations
Greatest(obs) == CHOOSE o \in obs : \A p \in obs : p.date <= o.date

\* the observations at or before (latest date minus the period)
Candidates(s, months) ==
    LET latest == Greatest(Range(s))
    IN  {o \in Range(s) : o.date <= minus_months(latest.date, months)}

\* the latest observation, and the base of a period: the candidate of the
\* greatest date, if there is a candidate
Basis(s, months) ==
    LET latest == Greatest(Range(s))
        cands  == {o \in Range(s) : o.date <= minus_months(latest.date, months)}
    IN  IF cands = {} THEN [latest |-> latest, usable |-> FALSE]
        ELSE LET base == Greatest(cands)
             IN  [latest |-> latest, usable |-> base.nav.v > 0, base |-> base]

ConstantSeries(s) ==
    /\ s # << >>
    /\ s[1].nav.v > 0
    /\ \A i \in 1..Len(s) : s[i].nav = s[1].nav

\* the float is exactly 0.0: a growth from a nav to the same nav, or the number 0
IsZero(x) ==
    /\ x.k = "num"
    /\ IF "months" \in DOMAIN x THEN x.latest = x.past ELSE x.v = 0

\* C14 as stated: for a series of 252 or more observations of one value the
\* Sharpe ratio is exactly 0.0 and the return of every one of the four periods
\* is exactly 0.0.
C14_ConstantAllZero ==
    (Len(nav_series) >= TradingDays /\ ConstantSeries(nav_series)) =>
        /\ SharpeCalled => call.result = Ppm(0)
        /\ ReturnsCalled => \A name \in PeriodNames : IsZero(call.result[name])

\* C14 (amended): for a series of 252 or more observations of one positive
\* value the Sharpe ratio is exactly 0.0, and the return of a period is exactly
\* 0.0 when the series has an observation at or before (latest date minus the
\* period) and NaN when it has none.
C14_ConstantZeroWhereHistory ==
    (Len(nav_series) >= TradingDays /\ ConstantSeries(nav_series)) =>
        /\ SharpeCalled => call.result = Ppm(0)
        /\ ReturnsCalled =>
               \A name \in PeriodNames :
                   IF Candidates(nav_series, periods[name]) = {}
                   THEN call.result[name] = NaN
                   ELSE IsZero(call.result[name])

\* a constant series of 252 observations or more that reaches back 3 years:
\* all four returns are 0.0
C14_Witness ==
    /\ ReturnsCalled
    /\ Len(nav_series) >= TradingDays
    /\ ConstantSeries(nav_series)
    /\ \A name \in PeriodNames : IsZero(call.result[name])

PositiveSeries(s) == \A i \in 1..Len(s) : s[i].nav.v > 0

\* the daily changes are all the same: their standard deviation is zero
EqualChanges(s) ==
    \A i \in 2..Len(s) : change(s[i].nav, s[i - 1].nav) = change(s[2].nav, s[1].nav)

\* C15: calculate_sharpe_ratio returns a float for every series: NaN when the
\* series has fewer than 252 observations, a number when it has 252 or more
\* observations that are all positive, and 0.0 when, in addition, the standard
\* deviation of the daily returns is zero.
C15_SharpeDefined ==
    SharpeCalled =>
        /\ call.result.k \in {"num", "nan", "inf"}
        /\ Len(nav_series) < TradingDays => call.result = NaN
        /\ (Len(nav_series) >= TradingDays /\ PositiveSeries(nav_series)) =>
               /\ call.result.k = "num"
               /\ EqualChanges(nav_series) => call.result = Ppm(0)

\* a series of exactly 252 positive observations with a Sharpe ratio that is a
\* number other than 0
C15_Witness ==
    /\ SharpeCalled
    /\ Len(nav_series) = TradingDays
    /\ PositiveSeries(nav_series)
    /\ call.result.k = "num"
    /\ call.result.v # 0

\* number of observations the store holds for a scheme code
StoredObservations(code) ==
    Cardinality({r \in BagToSet(rds.nav) : r.scheme_code = code})

\* C16 as stated: the annual_volatility of a scorecard is NaN when the fund has
\* fewer than 2 observations and a number when it has 2 or more.
C16_VolatilityFromTwo ==
    (ScorecardCalled /\ "metrics" \in DOMAIN call.result) =>
        LET volatility == call.result.metrics["annual_volatility"]
        IN  IF StoredObservations(call.code) < 2
            THEN volatility = NaN
            ELSE volatility.k = "num"

\* a scorecard was returned, not an error payload
Scored == ScorecardCalled /\ "scores" \in DOMAIN call.result

\* C17: whatever returns and Sharpe ratio are defined, the final_score of a
\* scorecard is an integer in [0, 100] and is the sum of its two components,
\* Performance and Risk-Adjusted Return, each an integer in [0, 50].
C17_FinalScoreRange ==
    Scored =>
        LET components == call.result.scores.components
        IN  /\ DOMAIN components = {"Performance", "Risk-Adjusted Return"}
            /\ components["Performance"] \in 0..50
            /\ components["Risk-Adjusted Return"] \in 0..50
            /\ call.result.scores.final_score \in 0..100
            /\ call.result.scores.final_score =
                   components["Performance"] + components["Risk-Adjusted Return"]

\* a scorecard with an undefined 3-year return, a defined 1-year return and a
\* defined Sharpe ratio that scores above 0
C17_Witness ==
    /\ Scored
    /\ call.result.metrics["3 Years"] = NaN
    /\ call.result.metrics["1 Year"] # NaN
    /\ call.result.metrics["sharpe_ratio"] # NaN
    /\ call.result.scores.final_score > 0

\* the ladder of the 1-year return, of the 3-year return and of the Sharpe ratio
Ladder1Year(x) ==
    IF return_exceeds(x, 20) THEN 25 ELSE IF return_exceeds(x, 10) THEN 10 ELSE 0

Ladder3Years(x) ==
    IF return_exceeds(x, 15) THEN 25 ELSE IF return_exceeds(x, 10) THEN 15 ELSE 0

LadderSharpe(x) ==
    IF sharpe_exceeds(x, 1000) THEN 50
    ELSE IF sharpe_exceeds(x, 750) THEN 35
    ELSE IF sharpe_exceeds(x, 500) THEN 20
    ELSE 0

\* C18: the Performance component is the ladder of the 1-year return (25 if
\* > 0.20, else 10 if > 0.10, else 0) plus the ladder of the 3-year return (25 if
\* > 0.15, else 15 if > 0.10, else 0), the Risk-Adjusted Return component the
\* ladder of the Sharpe ratio (50 if > 1.0, else 35 if > 0.75, else 20 if > 0.5,
\* else 0), and an undefined return or Sharpe ratio contributes 0.
C18_ThresholdLadders ==
    Scored =>
        LET metrics    == call.result.metrics
            components == call.result.scores.components
        IN  /\ components["Performance"] =
                   Ladder1Year(metrics["1 Year"]) + Ladder3Years(metrics["3 Years"])
            /\ components["Risk-Adjusted Return"] = LadderSharpe(metrics["sharpe_ratio"])
            /\ metrics["1 Year"] = NaN =>
                   components["Performance"] = Ladder3Years(metrics["3 Years"])
            /\ metrics["3 Years"] = NaN =>
                   components["Performance"] = Ladder1Year(metrics["1 Year"])
            /\ metrics["sharpe_ratio"] = NaN => components["Risk-Adjusted Return"] = 0

\* a scorecard on the second rung of both return ladders (10 + 15) and the top
\* rung of the Sharpe ladder
C18_Witness ==
    /\ Scored
    /\ Ladder1Year(call.result.metrics["1 Year"]) = 10
    /\ Ladder3Years(call.result.metrics["3 Years"]) = 15
    /\ call.result.scores.components["Performance"] = 25
    /\ call.result.scores.components["Risk-Adjusted Return"] = 50

\* the read of the fund's series gives nothing: no engine, no connection, no
\* table, or no observation of the scheme code
NothingRead(code) ==
    \/ ~db.engine
    \/ ~db.up
    \/ rds.navKey = "absent"
    \/ StoredObservations(code) = 0

\* C19: generate_fund_scorecard returns a mapping with exactly 'metrics' and
\* 'scores', or a mapping with only 'error'; it is the 'error' mapping whenever
\* the fund's series is empty (unknown code or storage failure).
C19_TwoShapes ==
    ScorecardCalled =>
        /\ \/ DOMAIN call.result = {"metrics", "scores"}
           \/ DOMAIN call.result = {"error"}
        /\ NothingRead(call.code) => DOMAIN call.result = {"error"}

\* the error payload for the unknown code -1 on a store that answers
C19_Witness ==
    /\ ScorecardCalled
    /\ call.code = -1
    /\ db.engine /\ db.up /\ rds.navKey # "absent"
    /\ DOMAIN call.result = {"error"}

\* the stored observations of a scheme code, as (date, nav)
StoredSeries(code) ==
    {[date |-> r.date, nav |-> r.nav] : r \in {q \in BagToSet(rds.nav) : q.scheme_code = code}}

None == [k |-> "none"]
Str(s) == [k |-> "str", s |-> s]

\* best_match[1] < 75
MatchThreshold == 75

\* get_all_fund_data: the rows of funds_metadata in the order the database
\* returns them, or an empty DataFrame; and the engine cache afterwards
get_all_fund_data(d, store, order) ==
    LET e == get_db_engine(d)
    IN  IF ~e.engine THEN [rows |-> << >>, db |-> e.db]
        ELSE IF ~e.db.up \/ store.metaKey = "absent" THEN [rows |-> << >>, db |-> e.db]
        ELSE [rows |-> order, db |-> e.db]

\* process.extractOne(user_query, names): the first name of the highest score
\* with its score; None for an empty list
extractOne(scores, names) ==
    IF names = << >> THEN None
    ELSE LET best == CHOOSE i \in 1..Len(names) :
                         /\ \A j \in 1..Len(names) : scores[names[j]] <= scores[names[i]]
                         /\ \A j \in 1..(i - 1) : scores[names[j]] < scores[names[i]]
         IN  [k |-> "match", name |-> names[best], score |-> scores[names[best]]]

\* the metrics of a scorecard in the order of the mapping
MetricNames ==
    <<"1 Month", "6 Months", "1 Year", "3 Years", "sharpe_ratio", "annual_volatility">>

\* 'Year' in metric or 'Month' in metric or 'volatility' in metric
is_percent_metric(metric) == metric # "sharpe_ratio"

\* the line f"{metric}: {val_str}\n"
metric_line(metric, value) ==
    [label |-> metric, value |-> value,
     style |-> IF is_percent_metric(metric) THEN "percent .2f" ELSE ".2f"]

context_metrics_with_nan(metrics) ==
    LET held(m) == m \in DOMAIN metrics
        names   == SelectSeq(MetricNames, held)
    IN  [i \in 1..Len(names) |-> metric_line(names[i], metrics[names[i]])]

\* the loop over scorecard['metrics'].items(): a line per value that is a float
\* and not NaN
context_metrics(metrics) ==
    LET rendered(m) == m \in DOMAIN metrics /\ ~(metrics[m].k = "nan")
        names       == SelectSeq(MetricNames, rendered)
    IN  [i \in 1..Len(names) |-> metric_line(names[i], metrics[names[i]])]

EmptyDatabaseReason ==
    <<[text |-> "The fund database is currently empty. Please run the data pipeline."]>>

NoMatchReason ==
    <<[text |-> "I couldn't find a specific fund matching your query. Please be more specific with the fund name."]>>

ScorecardErrorReason(name, error) ==
    <<[text |-> "I found the fund, but an error occurred", fund |-> name, error |-> error]>>

\* get_context_for_query: (matched_fund_name, context_str) or (None, reason), and
\* the engine cache afterwards
get_context_for_query(d, store, order, scores) ==
    LET all_funds == get_all_fund_data(d, store, order)
    IN  IF all_funds.rows = << >>
        THEN [matched_fund |-> None, context |-> EmptyDatabaseReason, db |-> all_funds.db]
        ELSE
        LET names      == [i \in 1..Len(all_funds.rows) |-> all_funds.rows[i].scheme_name]
            best_match == extractOne(scores, names)
        IN  IF best_match = None \/ best_match.score < MatchThreshold
            THEN [matched_fund |-> None, context |-> NoMatchReason, db |-> all_funds.db]
            ELSE
            LET matched_fund_name == best_match.name
                first == CHOOSE i \in 1..Len(names) :
                             /\ names[i] = matched_fund_name
                             /\ \A j \in 1..(i - 1) : names[j] # matched_fund_name
                matched_scheme_code == all_funds.rows[first].scheme_code
                sc == generate_fund_scorecard(all_funds.db, store, matched_scheme_code)
                scorecard == sc.result
            IN  IF "error" \in DOMAIN scorecard
                THEN [matched_fund |-> None,
                      context |-> ScorecardErrorReason(matched_fund_name, scorecard.error),
                      db |-> sc.db]
                ELSE [matched_fund |-> Str(matched_fund_name),
                      context |-> <<[label |-> "Fund Name", name |-> matched_fund_name],
                                    [label |-> "Overall Score",
                                     score |-> scorecard.scores.final_score]>>
                                  \o context_metrics(scorecard.metrics),
                      db |-> sc.db]

ChainError ==
    <<[text |-> "I'm sorry, an unexpected error occurred while processing your request. Please try again later."]>>

\* get_rag_response from line 94 on, c being what get_context_for_query returned:
\* "if not context" returns without the chain, otherwise rag_chain.invoke is
\* called with the context and answers or raises (chain_ok)
rag_answer(c, chain_ok) ==
    IF c.context = << >>
    THEN [response |-> IF c.matched_fund = None THEN None ELSE Str(c.context),
          invoked |-> FALSE, context |-> c.context, db |-> c.db]
    ELSE [response |-> IF chain_ok
                       THEN Str(<<[text |-> "answer of the chain", context |-> c.context]>>)
                       ELSE Str(ChainError),
          invoked |-> TRUE, context |-> c.context, db |-> c.db]

\* get_rag_response: the response, whether rag_chain.invoke was called and with
\* which context, and the engine cache afterwards
get_rag_response(d, store, order, scores, chain_ok) ==
    rag_answer(get_context_for_query(d, store, order, scores), chain_ok)

(* ------------------------------------------------------------------ *)
(* Specification of the chat path: get_context_for_query and           *)
(* get_rag_response on a store, for every way a query scores against   *)
(* the fund names and every order the metadata rows come in.           *)
(* ------------------------------------------------------------------ *)

FundNames == {"Fund A", "Fund B"}

ScoreLevels == {0, MatchThreshold - 1, MatchThreshold, 100}

\* a query, as the score of each fund name
Queries == [FundNames -> ScoreLevels]

ChatSeries ==
    { Alternating(LongHistory, 100, 120, TradingDays - 2),
      <<Obs(4801, 100), Obs(4802, 110), Obs(4803, 105)>>,
      <<Obs(4801, 100)>>,
      << >> }

\* the store after a daily run that replaced the metadata and failed in the
\* NAV upsert: funds_metadata names a fund, nav_history does not exist
MetadataOnlyStore == lambda_handler(EmptyRds, <<LineA1, LineA1b>>).rds

\* the orders a SELECT without ORDER BY may return the metadata rows in
MetaOrders(store) ==
    LET rows == BagToSet(store.meta)
        n    == Cardinality(rows)
    IN  {o \in [1..n -> rows] : \A i, j \in 1..n : o[i] = o[j] => i = j}

InitChat ==
    /\ nav_series \in ChatSeries
    /\ rds \in {StoreHolding(nav_series), EmptyRds, MetadataOnlyStore}
    /\ db \in [engine : {FALSE}, secret : BOOLEAN, up : BOOLEAN]
    /\ s3 = NoObjects
    /\ runs = NoRuns
    /\ raw = << >>
    /\ call = NoCall
    /\ sqlite = EmptySqlite
    /\ pre = rds
    /\ run = NoRun
    /\ again = FALSE

\* get_context_for_query(user_query)
CallContext(order, scores) ==
    /\ call = NoCall
    /\ \E c \in {get_context_for_query(db, rds, order, scores)} :
           /\ call' = [fn |-> "get_context_for_query", scores |-> scores,
                       result |-> [matched_fund |-> c.matched_fund, context |-> c.context]]
           /\ db' = c.db
    /\ UNCHANGED <<raw, rds, sqlite, pre, run, again, nav_series, s3, runs>>

\* get_rag_response(user_query)
CallRag(order, scores, chain_ok) ==
    /\ call = NoCall
    /\ \E r \in {get_rag_response(db, rds, order, scores, chain_ok)} :
           /\ call' = [fn |-> "get_rag_response", scores |-> scores,
                       result |-> r.response, invoked |-> r.invoked, context |-> r.context]
           /\ db' = r.db
    /\ UNCHANGED <<raw, rds, sqlite, pre, run, again, nav_series, s3, runs>>

NextChat ==
    \/ \E order \in MetaOrders(rds), scores \in Queries : CallContext(order, scores)
    \/ \E order \in MetaOrders(rds), scores \in Queries, chain_ok \in BOOLEAN :
           CallRag(order, scores, chain_ok)
    \/ Return
    \/ SecretChange
    \/ DatabaseChange

SpecChat == InitChat /\ [][NextChat]_vars

(* ------------------------------------------------------------------ *)
(* Properties of the chat path                                         *)
(* ------------------------------------------------------------------ *)

ContextCalled == call.fn = "get_context_for_query"
RagCalled == call.fn = "get_rag_response"

\* no metadata can be read: no engine, no connection, no table, or no row
MetadataEmpty ==
    \/ ~db.engine
    \/ ~db.up
    \/ rds.metaKey = "absent"
    \/ rds.meta = EmptyBag

StoredNames == {r.scheme_name : r \in BagToSet(rds.meta)}

\* the stored names the query scores highest against
BestNames(scores) == {n \in StoredNames : \A m \in StoredNames : scores[m] <= scores[n]}

ScorecardOfName(n) ==
    LET row == CHOOSE r \in BagToSet(rds.meta) : r.scheme_name = n
    IN  generate_fund_scorecard(db, rds, row.scheme_code).result

\* the labels of the lines of a context
Labels(context) == {context[i].label : i \in {j \in 1..Len(context) : "label" \in DOMAIN context[j]}}

\* the context names the fund and its final score and renders exactly the
\* metrics of the scorecard that are not NaN
ContextRenders(context, n, scorecard) ==
    /\ \E i \in 1..Len(context) : context[i] = [label |-> "Fund Name", name |-> n]
    /\ \E i \in 1..Len(context) :
           context[i] = [label |-> "Overall Score", score |-> scorecard.scores.final_score]
    /\ Labels(context) \ {"Fund Name", "Overall Score"} =
           {m \in DOMAIN scorecard.metrics : scorecard.metrics[m] # NaN}
    /\ \A i \in 1..Len(context) : "value" \in DOMAIN context[i] => context[i].value # NaN

\* C21: get_context_for_query returns (None, reason) when no metadata is read,
\* when the best match scores below 75 and when the scorecard of the matched
\* fund is an error; otherwise it returns the name of a best-scoring fund and
\* a context that holds the name, the final score and exactly the metrics that
\* are not NaN.
C21_ContextOrReason ==
    ContextCalled =>
        LET r    == call.result
            best == BestNames(call.scores)
        IN  IF MetadataEmpty \/ \A n \in best : call.scores[n] < MatchThreshold
            THEN r.matched_fund = None /\ r.context # << >>
                     /\ \A i \in 1..Len(r.context) : "text" \in DOMAIN r.context[i]
            ELSE \E n \in best :
                     LET scorecard == ScorecardOfName(n)
                     IN  IF "error" \in DOMAIN scorecard
                         THEN r.matched_fund = None
                                  /\ r.context = ScorecardErrorReason(n, scorecard.error)
                         ELSE r.matched_fund = Str(n)
                                  /\ ContextRenders(r.context, n, scorecard)

\* a matched fund whose context leaves out a NaN metric and renders another
C21_Witness ==
    /\ ContextCalled
    /\ call.result.matched_fund = Str("Fund A")
    /\ "3 Years" \notin Labels(call.result.context)
    /\ "annual_volatility" \in Labels(call.result.context)

\* get_context_for_query reports a failure: it returns (None, reason)
ContextFailed ==
    \/ MetadataEmpty
    \/ \A n \in BestNames(call.scores) : call.scores[n] < MatchThreshold
    \/ \E i \in 1..Len(call.context) : "text" \in DOMAIN call.context[i]

\* C23 as stated: when get_context_for_query returns (None, reason),
\* get_rag_response does not invoke the chain and returns the reason; the chain
\* is invoked only with the context string of a matched fund.
C23_NoChainOnFailure ==
    RagCalled =>
        /\ ContextFailed => (~call.invoked /\ call.result = Str(call.context))
        /\ call.invoked => ~ContextFailed

(* ------------------------------------------------------------------ *)
(* The handlers step by step                                           *)
(*                                                                     *)
(* runs[r] is an invocation of a handler: op the handler, pc the       *)
(* statement it is at, text the raw data it holds, rows the cleaned    *)
(* records, status what it returned ("200", "500") or "raised".  It    *)
(* also records what the invocation has done so far: landed (put the   *)
(* object), validated ("passed" / "failed"), copied, deleted, wrote    *)
(* (a write to the database), and alone: at its first write no other   *)
(* invocation that had written was still under way.                    *)
(* s3 holds the object of the key amfi_nav_all_<today>.txt in the      *)
(* landing and in the raw bucket (NoObject when there is none).        *)
(* A statement that calls a service takes ok: the call succeeds or     *)
(* raises.                                                             *)
(* ------------------------------------------------------------------ *)

next_step_validate_after_move(pc) ==
    CASE pc = "put"       -> "copy"
      [] pc = "copy"      -> "delete"
      [] pc = "delete"    -> "validate"
      [] pc = "validate"  -> "transform"
      [] pc = "transform" -> "load_meta"
      [] pc = "load_meta" -> "load_nav"
      [] pc = "load_nav"  -> "done"

\* the order of the statements of lambda_function.lambda_handler
next_step(pc) ==
    CASE pc = "put"       -> "validate"
      [] pc = "validate"  -> "copy"
      [] pc = "copy"      -> "delete"
      [] pc = "delete"    -> "transform"
      [] pc = "transform" -> "load_meta"
      [] pc = "load_meta" -> "load_nav"
      [] pc = "load_nav"  -> "done"

At(r, op, pc) == runs[r].op = op /\ runs[r].pc = pc

Ended(r) == runs[r].pc = "done"

\* the invocation ends with a return value or by raising
Ends(r, status) == [runs[r] EXCEPT !.pc = "done", !.status = status]

\* "except Exception" of lambda_function.lambda_handler: statusCode 500
Returns500(r) == Ends(r, "500")

\* a first write to the database: is every other invocation that has written
\* over?
WritesAlone(r) == \A o \in RunIds \ {r} : runs[o].wrote => Ended(o)

Writing(r) ==
    [runs[r] EXCEPT !.wrote = TRUE,
                    !.alone = IF runs[r].wrote THEN runs[r].alone ELSE WritesAlone(r)]

\* requests.get(AMFI_NAV_URL) and raise_for_status()
Fetch(r, t, ok) ==
    /\ runs[r].pc = "idle"
    /\ runs' = [runs EXCEPT ![r] =
                   IF ok THEN [NotRunning EXCEPT !.op = "lambda_function", !.pc = "put",
                                                 !.text = t]
                   ELSE [NotRunning EXCEPT !.op = "lambda_function", !.pc = "done",
                                           !.text = t, !.status = "500"]]
    /\ UNCHANGED <<raw, call, rds, sqlite, pre, run, again, nav_series, db, s3>>

\* s3_client.put_object(Bucket=S3_LANDING_BUCKET, ...)
PutLanding(r, ok) ==
    /\ At(r, "lambda_function", "put")
    /\ IF ok
       THEN /\ s3' = [s3 EXCEPT !.landing = runs[r].text]
            /\ runs' = [runs EXCEPT ![r].pc = next_step("put"), ![r].landed = TRUE]
       ELSE /\ s3' = s3
            /\ runs' = [runs EXCEPT ![r] = Returns500(r)]
    /\ UNCHANGED <<raw, call, rds, sqlite, pre, run, again, nav_series, db>>

\* if not validate_raw_data(raw_data): raise ValueError
Validate(r) ==
    /\ At(r, "lambda_function", "validate")
    /\ runs' = [runs EXCEPT ![r] =
                   IF validate_raw_data(runs[r].text, DefaultSampleSize, DefaultThresholdPct)
                   THEN [runs[r] EXCEPT !.pc = next_step("validate"),
                                        !.validated = "passed"]
                   ELSE [Returns500(r) EXCEPT !.validated = "failed"]]
    /\ UNCHANGED <<raw, call, rds, sqlite, pre, run, again, nav_series, db, s3>>

\* s3_client.copy_object(CopySource=landing, Bucket=S3_RAW_BUCKET, ...): raises
\* when the landing bucket has no such object
CopyToRaw(r, ok) ==
    /\ At(r, "lambda_function", "copy")
    /\ IF ok /\ s3.landing # NoObject
       THEN /\ s3' = [s3 EXCEPT !.raw = s3.landing]
            /\ runs' = [runs EXCEPT ![r].pc = next_step("copy"), ![r].copied = TRUE]
       ELSE /\ s3' = s3
            /\ runs' = [runs EXCEPT ![r] = Returns500(r)]
    /\ UNCHANGED <<raw, call, rds, sqlite, pre, run, again, nav_series, db>>

\* s3_client.delete_object(Bucket=S3_LANDING_BUCKET, ...)
DeleteLanding(r, ok) ==
    /\ At(r, "lambda_function", "delete")
    /\ IF ok
       THEN /\ s3' = [s3 EXCEPT !.landing = NoObject]
            /\ runs' = [runs EXCEPT ![r].pc = next_step("delete"), ![r].deleted = TRUE]
       ELSE /\ s3' = s3
            /\ runs' = [runs EXCEPT ![r] = Returns500(r)]
    /\ UNCHANGED <<raw, call, rds, sqlite, pre, run, again, nav_series, db>>

\* daily_df = process_daily_data(raw_data); return 200 when it is empty
Transform(r) ==
    LET df == process_daily_data(runs[r].text)
    IN  /\ At(r, "lambda_function", "transform")
        /\ runs' = [runs EXCEPT ![r] =
                       IF df.raised THEN Returns500(r)
                       ELSE IF df.rows = << >> THEN Ends(r, "200")
                       ELSE [runs[r] EXCEPT !.pc = next_step("transform"),
                                            !.rows = df.rows]]
        /\ UNCHANGED <<raw, call, rds, sqlite, pre, run, again, nav_series, db, s3>>

\* get_secret, get_db_engine and metadata_df.to_sql('funds_metadata', engine,
\* if_exists='replace'): a transaction of its own
LoadMetadata(r, ok) ==
    /\ At(r, "lambda_function", "load_meta")
    /\ IF ok
       THEN /\ rds' = [rds EXCEPT !.meta = TableOf(metadata_df(runs[r].rows)),
                                  !.metaKey = "plain"]
            /\ runs' = [runs EXCEPT ![r] =
                           [Writing(r) EXCEPT !.pc = next_step("load_meta")]]
       ELSE /\ rds' = rds
            /\ runs' = [runs EXCEPT ![r] = Returns500(r)]
    /\ UNCHANGED <<raw, call, sqlite, pre, run, again, nav_series, db, s3>>

\* "with engine.connect() as conn": CREATE TABLE IF NOT EXISTS nav_history,
\* temp_nav replaced, the upsert and the commit, or no change when a statement
\* fails
LoadNav(r, ok) ==
    LET navKeyed == create_if_not_exists(rds.navKey)
        rows     == nav_df(runs[r].rows)
    IN  /\ At(r, "lambda_function", "load_nav")
        /\ IF ok /\ ~nav_upsert_fails(navKeyed, rows)
           THEN /\ rds' = [rds EXCEPT !.nav = nav_upsert(rds.nav, rows),
                                      !.navKey = navKeyed]
                /\ runs' = [runs EXCEPT ![r] =
                               [Writing(r) EXCEPT !.pc = "done", !.status = "200"]]
           ELSE /\ rds' = rds
                /\ runs' = [runs EXCEPT ![r] = Returns500(r)]
        /\ UNCHANGED <<raw, call, sqlite, pre, run, again, nav_series, db, s3>>

\* processor_function.lambda_handler is triggered for an object and reads it
\* with get_object
ProcessorGet(r, t) ==
    /\ runs[r].pc = "idle"
    /\ runs' = [runs EXCEPT ![r] =
                   [NotRunning EXCEPT !.op = "processor_function", !.pc = "transform",
                                      !.text = t]]
    /\ UNCHANGED <<raw, call, rds, sqlite, pre, run, again, nav_series, db, s3>>

\* daily_df = process_data(raw_data); return 200 when it is empty; an exception
\* is raised again
ProcessorTransform(r) ==
    LET df == processor_process_data(runs[r].text)
    IN  /\ At(r, "processor_function", "transform")
        /\ runs' = [runs EXCEPT ![r] =
                       IF df.raised THEN Ends(r, "raised")
                       ELSE IF df.rows = << >> THEN Ends(r, "200")
                       ELSE [runs[r] EXCEPT !.pc = "load", !.rows = df.rows]]
        /\ UNCHANGED <<raw, call, rds, sqlite, pre, run, again, nav_series, db, s3>>

\* "with engine.connect() as conn" of processor_function: both upserts and the
\* commit, or no change when a statement fails
ProcessorLoad(r) ==
    LET res == processor_load(rds, runs[r].rows)
    IN  /\ At(r, "processor_function", "load")
        /\ rds' = res.rds
        /\ runs' = [runs EXCEPT ![r] =
                       IF res.status = "ok"
                       THEN [Writing(r) EXCEPT !.pc = "done", !.status = "200"]
                       ELSE Ends(r, "raised")]
        /\ UNCHANGED <<raw, call, sqlite, pre, run, again, nav_series, db, s3>>

\* the next scheduled invocation takes the place of an ended one
Finish(r) ==
    /\ Ended(r)
    /\ runs' = [runs EXCEPT ![r] = NotRunning]
    /\ UNCHANGED <<raw, call, rds, sqlite, pre, run, again, nav_series, db, s3>>

\* the texts the handlers are run on, step by step
RunTexts ==
    {<<LineA1>>, <<LineA1b, LineB1>>, <<LineA2>>, <<LineA1, LineA1b>>,
     <<BannerLine>>, <<HeaderLine>>, <<ShortLine, LineB1>>, SchemeCodeFeed}

(* One invocation of lambda_function.lambda_handler at a time; any call  *)
(* to a service may raise.  The raw zone starts empty or with the file   *)
(* of an earlier day's run, the landing zone empty or with a file an     *)
(* earlier failed run left.                                              *)
InitHandler ==
    /\ rds \in {EmptyRds} \cup BackfilledStores
    /\ raw = << >>
    /\ call = NoCall
    /\ sqlite = EmptySqlite
    /\ pre = rds
    /\ run = NoRun
    /\ again = FALSE
    /\ nav_series = NoSeries
    /\ db = NoEngine
    /\ s3 \in [landing : {NoObject, <<BannerLine>>}, raw : {NoObject, TestFundFeed}]
    /\ runs = NoRuns

NextHandler ==
    \/ \E t \in RunTexts, ok \in BOOLEAN : Fetch(1, t, ok)
    \/ \E ok \in BOOLEAN : PutLanding(1, ok)
    \/ Validate(1)
    \/ \E ok \in BOOLEAN : CopyToRaw(1, ok)
    \/ \E ok \in BOOLEAN : DeleteLanding(1, ok)
    \/ Transform(1)
    \/ \E ok \in BOOLEAN : LoadMetadata(1, ok)
    \/ \E ok \in BOOLEAN : LoadNav(1, ok)
    \/ Finish(1)

SpecHandler == InitHandler /\ [][NextHandler]_vars

(* Two invocations of the daily handlers under way at once, as Lambda    *)
(* runs them when two events arrive; no call to a service raises.        *)
InitRuns ==
    /\ rds = EmptyRds
    /\ InitIdle

NextRuns ==
    \E r \in RunIds :
        \/ \E t \in RunTexts : Fetch(r, t, TRUE)
        \/ PutLanding(r, TRUE)
        \/ Validate(r)
        \/ CopyToRaw(r, TRUE)
        \/ DeleteLanding(r, TRUE)
        \/ Transform(r)
        \/ LoadMetadata(r, TRUE)
        \/ LoadNav(r, TRUE)
        \/ \E t \in RunTexts : ProcessorGet(r, t)
        \/ ProcessorTransform(r)
        \/ ProcessorLoad(r)

SpecRuns == InitRuns /\ [][NextRuns]_vars

(* ------------------------------------------------------------------ *)
(* Properties of the handlers' steps                                   *)
(* ------------------------------------------------------------------ *)

LambdaRuns == {r \in RunIds : runs[r].op = "lambda_function"}

\* the statements after the move of the file to the raw zone
AfterMove == {"transform", "load_meta", "load_nav"}

\* C24: in lambda_function.lambda_handler the raw file is written to the landing
\* zone before validation; it is copied to the raw zone and deleted from the landing
\* zone only after validation has succeeded, and copy and delete come before every
\* write to the database; when validation fails the file stays in the landing zone,
\* is not in the raw zone, and the handler returns status 500 instead of raising
C24_LandingRawOrder ==
    \A r \in LambdaRuns :
        /\ runs[r].validated # "none" => runs[r].landed
        /\ runs[r].copied => runs[r].validated = "passed"
        /\ runs[r].deleted => runs[r].copied
        /\ runs[r].wrote => runs[r].copied /\ runs[r].deleted
        /\ runs[r].pc = "validate" => s3.landing = runs[r].text
        /\ runs[r].pc \in AfterMove =>
              s3.raw = runs[r].text /\ s3.landing = NoObject
        /\ runs[r].validated = "failed" =>
              /\ Ended(r)
              /\ s3.landing = runs[r].text
              /\ s3.raw # runs[r].text
              /\ runs[r].status = "500"
              /\ ~runs[r].wrote
        /\ Ended(r) => runs[r].status \in {"200", "500"}

\* an invocation whose validation failed has ended with the file in the landing
\* zone, after another one has moved its file and written to the database
C24_Witness ==
    /\ runs[1].op = "lambda_function"
    /\ runs[1].validated = "failed"
    /\ runs[1].status = "500"
    /\ s3.landing = runs[1].text
    /\ s3.raw \in RunTexts
    /\ rds # pre

\* an invocation has written to the database after the move
C24_WitnessWrote ==
    /\ runs[1].op = "lambda_function"
    /\ runs[1].wrote
    /\ runs[1].status = "200"
    /\ s3.raw = runs[1].text
    /\ s3.landing = NoObject

\* the stores the two invocations leave when one runs after the other has ended
SerialStores ==
    LET first(a, b)  == Invoke(runs[a].op, pre, runs[a].text).rds
        second(a, b) == Invoke(runs[b].op, first(a, b), runs[b].text).rds
    IN  {second(1, 2), second(2, 1)}

\* C22: ingestion runs never interleave on the store: of two runs, one has ended
\* before the other performs its first write, so the final store is the result of
\* a serial order of the two runs
C22_RunsNeverInterleave ==
    /\ \A r \in RunIds : runs[r].alone
    /\ (\A r \in RunIds : Ended(r)) => rds \in SerialStores

====
